---- MODULE Spec2Model ----
(***************************************************************************)
(* Model of mdp/nodes/scikits_nodes.py: the module-level import loop, the  *)
(* namespace walker apply_to_scikits_algorithms, the routing function      *)
(* wrap_scikits_algorithms with its three adapter factories, the assembly  *)
(* of DICT_, and the construction of adapter instances.                    *)
(*                                                                         *)
(* Python strings are TLA+ strings; str.startswith, str.endswith and the   *)
(* slice name[:4] are computed on the characters.                          *)
(***************************************************************************)
EXTENDS Integers, Sequences, FiniteSets, TLC

VARIABLES
    lib,                \* the installed scikits.learn library (the environment)
    pc,                 \* "import" | "walk" | "assemble" | "loaded" | "aborted"
    exception,          \* the exception that ended module loading, or "None"
    i,                  \* position of the import loop in scikits_modules
    failed,             \* subpackage names whose __import__ raised
    namespace,          \* module -> its __dict__ (member name -> object)
    stack,              \* call stack of apply_to_scikits_algorithms
    processed_modules,  \* the list threaded through the recursion
    processed_classes,  \* the list threaded through the recursion
    result,             \* value returned by the top-level call
    action_log,         \* classes action(member) was called on, in order
    wrap_log,           \* what wrap_scikits_algorithms did with each class
    scikits_nodes,      \* the list the adapter types are appended to
    j,                  \* position of the assembly loop in scikits_nodes
    DICT_,              \* the registry: adapter name -> adapter type
    init_log,           \* calls of ScikitsNode.__init__ and their outcome
    ctor_log,           \* calls of the wrapped class's constructor
    instances           \* adapter instances that were constructed

vars == <<lib, pc, exception, i, failed, namespace, stack, processed_modules,
          processed_classes, result, action_log, wrap_log, scikits_nodes, j,
          DICT_, init_log, ctor_log, instances>>

-----------------------------------------------------------------------------
(* Bounds of the model.                                                    *)

MaxDepth == 6       \* call-stack depth the walker may reach
MaxInit == 2        \* adapter-instance constructions after loading

-----------------------------------------------------------------------------
(* Python string operations.                                               *)

Min(a, b) == IF a < b THEN a ELSE b

StartsWith(s, p) == Len(s) >= Len(p) /\ SubSeq(s, 1, Len(p)) = p

EndsWith(s, p) == Len(s) >= Len(p) /\ SubSeq(s, Len(s) - Len(p) + 1, Len(s)) = p

\* s[:n]
Slice(s, n) == SubSeq(s, 1, Min(n, Len(s)))

Range(f) == {f[x] : x \in DOMAIN f}

Count(seq, x) == Cardinality({k \in DOMAIN seq : seq[k] = x})

NoDuplicates(seq) == \A a, b \in DOMAIN seq : seq[a] = seq[b] => a = b

EmptyDict == [n \in {} |-> "None"]

-----------------------------------------------------------------------------
(* The program's constants.                                                *)

scikits_modules ==
    <<"ann", "cluster", "covariance", "feature_extraction",
      "feature_selection", "features", "gaussian_process", "glm",
      "linear_model", "preprocessing", "svm",
      "pca", "lda", "hmm", "fastica", "grid_search", "mixture",
      "naive_bayes", "neighbors", "qda">>

PackagePrefix == "scikits.learn"

NameSuffix == "ScikitsLearnNode"

None == "None"

-----------------------------------------------------------------------------
(* The external library: classes, modules and what importing does.         *)

ModuleIds == {"learn", "svm", "sparse", "pca", "lda", "covariance",
              "preprocessing", "numpy"}

\* module.__name__
ModuleName ==
    [m \in ModuleIds |->
        CASE m = "learn" -> "scikits.learn"
          [] m = "numpy" -> "numpy"
          [] m = "sparse" -> "scikits.learn.svm.sparse"
          [] OTHER -> "scikits.learn." \o m]

ClassIds == {"SVC", "SparseSVC", "Lasso", "BaseLibSVM", "LinearModel", "PCA",
             "LDA", "Covariance", "Hasher", "ClassifierMixin", "Kernel"}

\* Per class: __name__, __module__, the methods it has, whether it is a
\* subclass of scikits.learn.base.ClassifierMixin, its __doc__, and the
\* __doc__ of its own __init__ ("__init__" in methods iff it defines one).
ClassAttr ==
    [c \in ClassIds |->
        CASE c = "SVC" ->
               [name |-> "SVC", module |-> "scikits.learn.svm.libsvm",
                methods |-> {"__init__", "fit", "predict", "predict_proba"},
                classifier |-> TRUE, doc |-> "C-SVC", init_doc |-> None]
          [] c = "SparseSVC" ->
               [name |-> "SVC", module |-> "scikits.learn.svm.sparse.libsvm",
                methods |-> {"__init__", "fit", "predict"},
                classifier |-> TRUE, doc |-> "sparse C-SVC", init_doc |-> "init"]
          [] c = "Lasso" ->
               [name |-> "Lasso", module |-> "scikits.learn.linear_model.base",
                methods |-> {"__init__", "fit", "predict"},
                classifier |-> FALSE, doc |-> "Lasso", init_doc |-> "init"]
          [] c = "BaseLibSVM" ->
               [name |-> "BaseLibSVM", module |-> "scikits.learn.svm.base",
                methods |-> {"__init__", "fit", "predict"},
                classifier |-> TRUE, doc |-> None, init_doc |-> None]
          [] c = "LinearModel" ->
               [name |-> "LinearModel", module |-> "scikits.learn.linear_model.base",
                methods |-> {"fit", "predict"},
                classifier |-> FALSE, doc |-> "Base class", init_doc |-> None]
          [] c = "PCA" ->
               [name |-> "PCA", module |-> "scikits.learn.pca",
                methods |-> {"fit", "transform"},
                classifier |-> FALSE, doc |-> None, init_doc |-> None]
          [] c = "LDA" ->
               [name |-> "LDA", module |-> "scikits.learn.lda",
                methods |-> {"__init__", "fit", "predict", "predict_proba", "transform"},
                classifier |-> TRUE, doc |-> "LDA", init_doc |-> "init"]
          [] c = "Covariance" ->
               [name |-> "Covariance", module |-> "scikits.learn.covariance.covariance",
                methods |-> {"__init__", "fit"},
                classifier |-> FALSE, doc |-> "Covariance", init_doc |-> None]
          [] c = "Hasher" ->
               [name |-> "Hasher", module |-> "scikits.learn.preprocessing",
                methods |-> {"transform"},
                classifier |-> FALSE, doc |-> "Hasher", init_doc |-> None]
          [] c = "ClassifierMixin" ->
               [name |-> "ClassifierMixin", module |-> "scikits.learn.base",
                methods |-> {"score"},
                classifier |-> TRUE, doc |-> "Mixin", init_doc |-> None]
          [] OTHER ->
               [name |-> "Kernel", module |-> "scikits.learn.svm.libsvm_",
                methods |-> {"__init__", "fit", "predict"},
                classifier |-> FALSE, doc |-> None, init_doc |-> None]]

Libraries == {"cyclic", "diamond", "private", "quirks", "shapes", "nofit", "broken"}

\* The __dict__ of every module before the import loop runs.
StaticDict(l, m) ==
    CASE l = "cyclic" /\ m = "learn" -> ("Lasso" :> "Lasso" @@ "SVC" :> "SVC")
      [] l = "cyclic" /\ m = "svm" ->
           ("SVC" :> "SVC" @@ "sparse" :> "sparse" @@ "learn" :> "learn")
      [] l = "cyclic" /\ m = "sparse" ->
           ("SVC" :> "SparseSVC" @@ "svm" :> "svm" @@ "BaseLibSVM" :> "BaseLibSVM")
      [] l = "diamond" /\ m = "learn" ->
           ("PCA" :> "PCA" @@ "decomposition" :> "pca")
      [] l = "diamond" /\ m = "pca" ->
           ("PCA" :> "PCA" @@ "ProbabilisticPCA" :> "PCA" @@ "LDA" :> "LDA"
            @@ "lda" :> "lda")
      [] l = "diamond" /\ m = "lda" -> ("LDA" :> "LDA" @@ "pca" :> "pca")
      [] l = "private" /\ m = "learn" ->
           ("_svm" :> "svm" @@ "_Lasso" :> "Lasso" @@ "SVC" :> "SVC"
            @@ "numpy" :> "numpy")
      [] l = "private" /\ m = "svm" ->
           ("SVC" :> "SVC" @@ "BaseLibSVM" :> "BaseLibSVM")
      [] l = "private" /\ m = "numpy" -> ("Lasso" :> "Lasso")
      [] l = "quirks" /\ m = "learn" ->
           ("LinearModel" :> "LinearModel" @@ "ClassifierMixin" :> "ClassifierMixin"
            @@ "clone" :> "function")
      [] l = "quirks" /\ m = "covariance" ->
           ("Covariance" :> "Covariance" @@ "Kernel" :> "Kernel" @@ "Lasso" :> "Lasso")
      [] l = "shapes" /\ m = "learn" ->
           ("LDA" :> "LDA" @@ "PCA" :> "PCA" @@ "Lasso" :> "Lasso"
            @@ "Covariance" :> "Covariance")
      [] l = "nofit" /\ m = "preprocessing" ->
           ("Hasher" :> "Hasher" @@ "PCA" :> "PCA" @@ "SVC" :> "SVC")
      [] l = "broken" /\ m = "learn" -> ("SVC" :> "SVC")
      [] l = "broken" /\ m = "svm" -> ("SVC" :> "SVC")
      [] OTHER -> EmptyDict

\* What __import__('scikits.learn.' + name) does in library l: it returns a
\* module (and binds it in the package under name) or raises.
ImportOutcome(l, name) ==
    CASE l = "cyclic" /\ name = "svm" -> "svm"
      [] l = "diamond" /\ name \in {"pca", "lda"} -> name
      [] l = "quirks" /\ name = "covariance" -> "covariance"
      [] l = "nofit" /\ name = "preprocessing" -> "preprocessing"
      [] l = "broken" /\ name = "svm" -> "svm"
      [] l = "broken" /\ name = "hmm" -> "ValueError"
      [] OTHER -> "ImportError"

-----------------------------------------------------------------------------
(* inspect and hasattr.                                                    *)

isclass(o) == o \in ClassIds

ismodule(o) == o \in ModuleIds

\* every class inherits __init__ from object
hasattr(c, a) == a \in ClassAttr[c].methods \/ a = "__init__"

-----------------------------------------------------------------------------
(* The import loop.                                                        *)

\* except ImportError
Caught(exc) == exc = "ImportError"

Init ==
    /\ lib \in Libraries
    /\ pc = "import"
    /\ exception = None
    /\ i = 1
    /\ failed = {}
    /\ namespace = [m \in ModuleIds |-> StaticDict(lib, m)]
    /\ stack = <<>>
    /\ processed_modules = <<>>
    /\ processed_classes = <<>>
    /\ result = [returned |-> FALSE, value |-> <<>>]
    /\ action_log = <<>>
    /\ wrap_log = <<>>
    /\ scikits_nodes = <<>>
    /\ j = 0
    /\ DICT_ = EmptyDict
    /\ init_log = <<>>
    /\ ctor_log = <<>>
    /\ instances = <<>>

walk_vars == <<stack, processed_modules, processed_classes, result, action_log,
               wrap_log, scikits_nodes>>

node_vars == <<init_log, ctor_log, instances>>

\* __import__ succeeds: the subpackage becomes a member of scikits.learn
ImportSubpackage ==
    /\ pc = "import"
    /\ i <= Len(scikits_modules)
    /\ LET name == scikits_modules[i]
           out == ImportOutcome(lib, name)
       IN  /\ out \in ModuleIds
           /\ namespace' = [namespace EXCEPT !["learn"] = (name :> out) @@ @]
    /\ i' = i + 1
    /\ UNCHANGED <<lib, pc, exception, failed, walk_vars, j, DICT_, node_vars>>

\* __import__ raises: the except clause decides
ImportFails ==
    /\ pc = "import"
    /\ i <= Len(scikits_modules)
    /\ LET name == scikits_modules[i]
           out == ImportOutcome(lib, name)
       IN  /\ out \notin ModuleIds
           /\ failed' = failed \cup {name}
           /\ IF Caught(out)
                THEN /\ i' = i + 1
                     /\ UNCHANGED <<pc, exception>>
                ELSE /\ pc' = "aborted"
                     /\ exception' = out
                     /\ UNCHANGED i
    /\ UNCHANGED <<lib, namespace, walk_vars, j, DICT_, node_vars>>

-----------------------------------------------------------------------------
(* wrap_scikits_classifier, wrap_scikits_transformer, wrap_scikits_predictor *)

\* methods_dict: ScikitsNode method name -> scikits.learn method name
MethodsDict(kind, c) ==
    CASE kind = "classifier" ->
           {<<"__init__", "__init__">>, <<"stop_training", "fit">>,
            <<"label", "predict">>}
           \cup (IF hasattr(c, "predict_proba")
                   THEN {<<"prob", "predict_proba">>} ELSE {})
      [] kind = "transformer" ->
           {<<"__init__", "__init__">>, <<"stop_training", "fit">>,
            <<"execute", "transform">>}
      [] OTHER ->
           {<<"__init__", "__init__">>, <<"stop_training", "fit">>,
            <<"execute", "predict">>}

\* getattr(scikits_class, scikits_name) raises AttributeError for a method
\* the class does not have
SynthRaises(kind, c) == \E p \in MethodsDict(kind, c) : ~hasattr(c, p[2])

\* hasattr(scikits_method, 'im_func'): a method defined in Python; the
\* __init__ inherited from object is a slot wrapper without im_func
HasImFunc(c, scikits_name) == scikits_name \in ClassAttr[c].methods

\* scikits_class.__init__.__doc__ (the slot wrapper of object has one)
InitDoc(c) ==
    IF "__init__" \in ClassAttr[c].methods THEN ClassAttr[c].init_doc
    ELSE "x.__init__(...) initializes x"

\* _DOC_TEMPLATE % (module, name, doc)
DocTemplate(c, doc) == <<ClassAttr[c].module, ClassAttr[c].name, doc>>

\* The ScikitsNode class a factory returns for scikits_class c
ScikitsNode(kind, c) ==
    [kind |-> kind,
     scikits_class |-> c,
     name |-> ClassAttr[c].name \o NameSuffix,
     doc |-> DocTemplate(c, ClassAttr[c].doc),
     patched |-> {p[1] : p \in {q \in MethodsDict(kind, c) : HasImFunc(c, q[2])}},
     init_doc |-> IF InitDoc(c) = None THEN DocTemplate(c, ClassAttr[c].doc)
                  ELSE IF HasImFunc(c, "__init__") THEN DocTemplate(c, InitDoc(c))
                  ELSE <<>>]

\* ScikitsNode.is_trainable()
is_trainable(node) == hasattr(node.scikits_class, "fit")

\* ScikitsNode.is_invertible()
is_invertible(node) == FALSE

-----------------------------------------------------------------------------
(* wrap_scikits_algorithms                                                 *)

Excluded_OnlyLinearModel(name) == name = "LinearModel"

Excluded(name) == Slice(name, 4) = "Base" \/ name = "LinearModel"

Route_TransformFirst(c) ==
    IF hasattr(c, "transform") THEN "transformer"
    ELSE IF ClassAttr[c].classifier THEN "classifier"
    ELSE IF hasattr(c, "predict") THEN "predictor"
    ELSE "none"

Route(c) ==
    IF ClassAttr[c].classifier THEN "classifier"
    ELSE IF hasattr(c, "transform") THEN "transformer"
    ELSE IF hasattr(c, "predict") THEN "predictor"
    ELSE "none"

\* What wrap_scikits_algorithms(c, nodes_list) does: the branch taken,
\* whether the factory raises, and nodes_list afterwards.
Wrap(c, nodes_list) ==
    IF Excluded(ClassAttr[c].name)
      THEN [route |-> "excluded", raises |-> FALSE, nodes |-> nodes_list]
    ELSE IF Route(c) = "none"
      THEN [route |-> "none", raises |-> FALSE, nodes |-> nodes_list]
    ELSE IF SynthRaises(Route(c), c)
      THEN [route |-> Route(c), raises |-> TRUE, nodes |-> nodes_list]
    ELSE [route |-> Route(c), raises |-> FALSE,
          nodes |-> Append(nodes_list, ScikitsNode(Route(c), c))]

-----------------------------------------------------------------------------
(* apply_to_scikits_algorithms                                             *)

\* not member_name.startswith('_')
IsPublic(member_name) == ~StartsWith(member_name, "_")

AlreadyProcessed_Never(m, modules) == FALSE

\* current_module in processed_modules
AlreadyProcessed(m, modules) == m \in Range(modules)

IsNewClass_NoDedup(member, classes) == isclass(member)

\* inspect.isclass(member) and member not in processed_classes
IsNewClass(member, classes) == isclass(member) /\ member \notin Range(classes)

\* the condition under which action(member) is called
Predicate(c) ==
    /\ hasattr(c, "fit") \/ hasattr(c, "predict") \/ hasattr(c, "transform")
    /\ ~EndsWith(ClassAttr[c].module, "_")

IsSubmodule_AnyModule(member) == ismodule(member)

\* inspect.ismodule(member) and member.__name__.startswith('scikits.learn')
IsSubmodule(member) ==
    ismodule(member) /\ StartsWith(ModuleName[member], PackagePrefix)

Frame(m) == [module |-> m, items |-> DOMAIN namespace[m]]

Top == stack[Len(stack)]

\* the frame on top of the stack with member_name taken from its iteration
Consume(member_name) ==
    [stack EXCEPT ![Len(stack)].items = @ \ {member_name}]

\* The top-level call of line 371, up to the loop over the members.
StartWalk ==
    /\ pc = "import"
    /\ i = Len(scikits_modules) + 1
    /\ pc' = "walk"
    /\ scikits_nodes' = <<>>
    /\ IF AlreadyProcessed("learn", <<>>)
         THEN UNCHANGED <<processed_modules, stack>>
         ELSE /\ processed_modules' = <<"learn">>
              /\ stack' = <<Frame("learn")>>
    /\ processed_classes' = <<>>
    /\ UNCHANGED <<lib, exception, i, failed, namespace, result, action_log,
                   wrap_log, j, DICT_, node_vars>>

\* a member whose name starts with an underscore
VisitPrivate ==
    /\ pc = "walk"
    /\ stack # <<>>
    /\ \E member_name \in Top.items :
         /\ ~IsPublic(member_name)
         /\ stack' = Consume(member_name)
    /\ UNCHANGED <<lib, pc, exception, i, failed, namespace, processed_modules,
                   processed_classes, result, action_log, wrap_log,
                   scikits_nodes, j, DICT_, node_vars>>

\* a class seen for the first time: record it, and call action on it when
\* the predicate holds; action is wrap_scikits_algorithms(c, scikits_nodes)
VisitClass ==
    /\ pc = "walk"
    /\ stack # <<>>
    /\ \E member_name \in Top.items :
         LET member == namespace[Top.module][member_name]
             w == Wrap(member, scikits_nodes)
         IN  /\ IsPublic(member_name)
             /\ IsNewClass(member, processed_classes)
             /\ processed_classes' = Append(processed_classes, member)
             /\ IF Predicate(member)
                  THEN /\ action_log' = Append(action_log, member)
                       /\ wrap_log' = Append(wrap_log,
                                        [class |-> member, route |-> w.route,
                                         raised |-> w.raises])
                       /\ scikits_nodes' = w.nodes
                       /\ IF w.raises
                            THEN /\ pc' = "aborted"
                                 /\ exception' = "AttributeError"
                                 /\ stack' = <<>>
                            ELSE /\ stack' = Consume(member_name)
                                 /\ UNCHANGED <<pc, exception>>
                  ELSE /\ stack' = Consume(member_name)
                       /\ UNCHANGED <<pc, exception, action_log, wrap_log,
                                      scikits_nodes>>
    /\ UNCHANGED <<lib, i, failed, namespace, processed_modules, result, j,
                   DICT_, node_vars>>

\* a module of the package: the recursive call, which returns at once when
\* the module was processed and otherwise starts iterating its members
VisitModule ==
    /\ pc = "walk"
    /\ stack # <<>>
    /\ \E member_name \in Top.items :
         LET member == namespace[Top.module][member_name]
         IN  /\ IsPublic(member_name)
             /\ ~IsNewClass(member, processed_classes)
             /\ IsSubmodule(member)
             /\ IF AlreadyProcessed(member, processed_modules)
                  THEN /\ stack' = Consume(member_name)
                       /\ UNCHANGED processed_modules
                  ELSE /\ Len(stack) < MaxDepth
                       /\ processed_modules' = Append(processed_modules, member)
                       /\ stack' = Append(Consume(member_name), Frame(member))
    /\ UNCHANGED <<lib, pc, exception, i, failed, namespace, processed_classes,
                   result, action_log, wrap_log, scikits_nodes, j, DICT_,
                   node_vars>>

\* any other public member: a class seen before, a module outside the
\* package, or an object that is neither
VisitOther ==
    /\ pc = "walk"
    /\ stack # <<>>
    /\ \E member_name \in Top.items :
         LET member == namespace[Top.module][member_name]
         IN  /\ IsPublic(member_name)
             /\ ~IsNewClass(member, processed_classes)
             /\ ~IsSubmodule(member)
             /\ stack' = Consume(member_name)
    /\ UNCHANGED <<lib, pc, exception, i, failed, namespace, processed_modules,
                   processed_classes, result, action_log, wrap_log,
                   scikits_nodes, j, DICT_, node_vars>>

\* the loop is over: return processed_classes; the top-level call's value
\* is kept, and DICT_ = {} follows
Return ==
    /\ pc = "walk"
    /\ stack # <<>>
    /\ Top.items = {}
    /\ stack' = SubSeq(stack, 1, Len(stack) - 1)
    /\ IF Len(stack) = 1
         THEN /\ result' = [returned |-> TRUE, value |-> processed_classes]
              /\ pc' = "assemble"
              /\ j' = 1
              /\ DICT_' = EmptyDict
         ELSE UNCHANGED <<result, pc, j, DICT_>>
    /\ UNCHANGED <<lib, exception, i, failed, namespace, processed_modules,
                   processed_classes, action_log, wrap_log, scikits_nodes,
                   node_vars>>

-----------------------------------------------------------------------------
(* DICT_                                                                   *)

\* one iteration of: for wrapped_c in scikits_nodes
Register ==
    /\ pc = "assemble"
    /\ j <= Len(scikits_nodes)
    /\ DICT_' = (scikits_nodes[j].name :> scikits_nodes[j]) @@ DICT_
    /\ j' = j + 1
    /\ UNCHANGED <<lib, pc, exception, i, failed, namespace, walk_vars, node_vars>>

\* the module has been executed to its last line
Loaded ==
    /\ pc = "assemble"
    /\ j = Len(scikits_nodes) + 1
    /\ pc' = "loaded"
    /\ UNCHANGED <<lib, exception, i, failed, namespace, walk_vars, j, DICT_,
                   node_vars>>

-----------------------------------------------------------------------------
(* ScikitsNode.__init__                                                    *)

\* an optional integer: <<>> is None, <<n>> is n
NoDim == <<>>

OutputDims == {NoDim, <<0>>, <<2>>}

Kwargs == {"{}", "{'n_components': 2}"}

OutputDimGiven_Truthy(output_dim) == output_dim \notin {NoDim, <<0>>}

\* output_dim is not None
OutputDimGiven(output_dim) == output_dim # NoDim

\* One call ScikitsNode(output_dim=..., **kwargs) of an adapter type.  The
\* base class's __init__ (mdp.Cumulator, mdp.ClassifierCumulator) and the
\* wrapped constructor are taken to return; ctor_log records the call of the
\* wrapped constructor.
NodeInit ==
    /\ pc = "loaded"
    /\ Len(init_log) < MaxInit
    /\ \E node \in Range(scikits_nodes), output_dim \in OutputDims, kwargs \in Kwargs :
         IF OutputDimGiven(output_dim)
           THEN /\ init_log' = Append(init_log,
                                 [node |-> node.name, kind |-> node.kind,
                                  class |-> node.scikits_class,
                                  output_dim |-> output_dim, kwargs |-> kwargs,
                                  raised |-> "ScikitsException"])
                /\ UNCHANGED <<ctor_log, instances>>
           ELSE /\ init_log' = Append(init_log,
                                 [node |-> node.name, kind |-> node.kind,
                                  class |-> node.scikits_class,
                                  output_dim |-> output_dim, kwargs |-> kwargs,
                                  raised |-> None])
                /\ ctor_log' = Append(ctor_log,
                                 [class |-> node.scikits_class, kwargs |-> kwargs])
                /\ instances' = Append(instances,
                                  [node |-> node.name,
                                   scikits_alg |-> [class |-> node.scikits_class,
                                                    kwargs |-> kwargs]])
    /\ UNCHANGED <<lib, pc, exception, i, failed, namespace, walk_vars, j, DICT_>>

-----------------------------------------------------------------------------

Next ==
    \/ ImportSubpackage
    \/ ImportFails
    \/ StartWalk
    \/ VisitPrivate
    \/ VisitClass
    \/ VisitModule
    \/ VisitOther
    \/ Return
    \/ Register
    \/ Loaded
    \/ NodeInit

Spec == Init /\ [][Next]_vars

\* The interpreter runs the module's statements one after the other.
FairSpec == Spec /\ WF_vars(Next)

-----------------------------------------------------------------------------
(* Vocabulary of the properties.                                           *)

Kinds == {"classifier", "transformer", "predictor"}

\* the classes bound to a member name without leading underscore in a module
\* the walker entered
PublicClasses ==
    {c \in ClassIds :
        \E m \in Range(processed_modules) :
            \E n \in DOMAIN namespace[m] :
                ~StartsWith(n, "_") /\ namespace[m][n] = c}

HasCapability(c) ==
    \E a \in {"fit", "predict", "transform"} : a \in ClassAttr[c].methods

Eligible(c) ==
    c \in PublicClasses /\ HasCapability(c) /\ ~EndsWith(ClassAttr[c].module, "_")

\* the modules reachable from S through members of any name
RECURSIVE ModuleClosure(_)
ModuleClosure(S) ==
    LET T == S \cup {o \in ModuleIds :
                       \E m \in S : \E n \in DOMAIN namespace[m] : namespace[m][n] = o}
    IN  IF T = S THEN S ELSE ModuleClosure(T)

\* every class of the namespace graph under the root
GraphClasses ==
    {c \in ClassIds :
        \E m \in ModuleClosure({"learn"}) :
            \E n \in DOMAIN namespace[m] : namespace[m][n] = c}

\* the modules the walker may enter: the root, and modules of the package
\* bound to a public name in such a module
RECURSIVE PackageClosure(_)
PackageClosure(S) ==
    LET T == S \cup {o \in ModuleIds :
                       /\ StartsWith(ModuleName[o], "scikits.learn")
                       /\ \E m \in S : \E n \in DOMAIN namespace[m] :
                            ~StartsWith(n, "_") /\ namespace[m][n] = o}
    IN  IF T = S THEN S ELSE PackageClosure(T)

IsPrefix(s, t) == Len(s) <= Len(t) /\ SubSeq(t, 1, Len(s)) = s

WalkEnded ==
    \/ pc \in {"assemble", "loaded"}
    \/ pc = "aborted" /\ exception = "AttributeError"

NodesOf(c) == {k \in DOMAIN scikits_nodes : scikits_nodes[k].scikits_class = c}

ExcludedName(c) ==
    StartsWith(ClassAttr[c].name, "Base") \/ ClassAttr[c].name = "LinearModel"

-----------------------------------------------------------------------------
(* C1: on every namespace graph, cyclic ones included, the traversal       *)
(* started on the root comes to an end, and no module is entered (appended *)
(* to processed_modules, its members iterated) more than once.             *)
C1_TerminatesEnteringOnce ==
    /\ [](/\ NoDuplicates(processed_modules)
          /\ \A a, b \in DOMAIN stack : stack[a].module = stack[b].module => a = b
          /\ \A a \in DOMAIN stack : stack[a].module \in Range(processed_modules))
    /\ (pc = "walk") ~> (pc # "walk")

\* the traversal of the cyclic library returned, having entered all three
\* modules of the cycle learn -> svm -> sparse -> svm, svm -> learn
C1_Witness ==
    /\ lib = "cyclic"
    /\ result.returned
    /\ Range(processed_modules) = {"learn", "svm", "sparse"}

(* C2: when the traversal is over, action has been called exactly once on  *)
(* every class that is bound to a public name in an entered module, has    *)
(* fit, predict or transform and whose __module__ does not end with an     *)
(* underscore, and on no other class.                                      *)
C2_ActionOncePerEligibleClass ==
    WalkEnded =>
        \A c \in ClassIds :
            Count(action_log, c) = IF Eligible(c) THEN 1 ELSE 0

\* The same statement for the traversals that return: it holds there, so
\* the traversals that break it are those an exception of action ends.
C2_OnReturn ==
    /\ \A c \in ClassIds : Count(action_log, c) <= 1
    /\ \A c \in Range(action_log) : Eligible(c)
    /\ result.returned =>
         /\ \A c \in ClassIds : Count(action_log, c) = IF Eligible(c) THEN 1 ELSE 0
         /\ Range(processed_classes) = PublicClasses

(* C3 as stated: the returned list holds every visited class exactly once, *)
(* and when every class of the graph has fit and predict it is exactly the *)
(* set of the graph's classes.                                             *)
C3_ReturnsAllGraphClasses ==
    result.returned =>
        /\ Range(result.value) = PublicClasses
        /\ NoDuplicates(result.value)
        /\ (\A c \in GraphClasses : {"fit", "predict"} \subseteq ClassAttr[c].methods)
             => Range(result.value) = GraphClasses

(* C3 amended: the returned list holds exactly the classes bound to a      *)
(* public name in an entered module, matched and rejected alike, each      *)
(* exactly once however many paths and names reach it; classes bound only  *)
(* to underscore names or only in modules the walker does not enter are    *)
(* not in it, whatever methods they have.                                  *)
C3_ReturnsPublicClassesOnce ==
    result.returned =>
        /\ Range(result.value) = PublicClasses
        /\ NoDuplicates(result.value)
        /\ result.value = processed_classes
        /\ \A c \in GraphClasses \ PublicClasses : c \notin Range(result.value)

\* the cyclic library: every class has fit and predict, SVC is bound in two
\* modules, and the call returned
C3_Witness ==
    /\ lib = "cyclic"
    /\ result.returned
    /\ \A c \in GraphClasses : {"fit", "predict"} \subseteq ClassAttr[c].methods
    /\ Range(result.value) = {"Lasso", "SVC", "SparseSVC", "BaseLibSVM"}

(* C4: a class whose name starts with 'Base' or is 'LinearModel' never     *)
(* gets an adapter: wrap_scikits_algorithms appends nothing for it and its *)
(* derived name is never a key of DICT_, also when the walker reaches it   *)
(* and it has fit, predict or transform.                                   *)
C4_ExcludedNeverRegistered ==
    \A c \in ClassIds :
        ExcludedName(c) =>
            /\ NodesOf(c) = {}
            /\ (ClassAttr[c].name \o "ScikitsLearnNode") \notin DOMAIN DICT_
            /\ \A e \in Range(wrap_log) : e.class = c => e.route = "excluded"

\* BaseLibSVM has fit and predict, was passed to action, and the registry
\* was assembled with other entries
C4_Witness ==
    /\ pc = "loaded"
    /\ "BaseLibSVM" \in Range(action_log)
    /\ DOMAIN DICT_ # {}

(* C5: after assembly DICT_ has one entry per adapter type of              *)
(* scikits_nodes, each under its derived name, every entry being the       *)
(* adapter of one class that passed the predicate and was not excluded.    *)
C5_OneEntryPerAdapter ==
    pc = "loaded" =>
        /\ Cardinality(DOMAIN DICT_) = Len(scikits_nodes)
        /\ \A k \in DOMAIN scikits_nodes :
             /\ scikits_nodes[k].name \in DOMAIN DICT_
             /\ DICT_[scikits_nodes[k].name] = scikits_nodes[k]
        /\ \A n \in DOMAIN DICT_ :
             /\ DICT_[n].scikits_class \in Range(action_log)
             /\ ~ExcludedName(DICT_[n].scikits_class)

(* C6: wrap_scikits_algorithms routes a class that is not excluded to      *)
(* Classifier if it is a ClassifierMixin subclass, else to Transformer if  *)
(* it has transform, else to Predictor if it has predict, and else does    *)
(* nothing: no adapter is appended and nothing is raised.                  *)
C6_RoutingPriority ==
    \A e \in Range(wrap_log) :
        LET c == e.class
            isClf == ClassAttr[c].classifier
            hasT == "transform" \in ClassAttr[c].methods
            hasP == "predict" \in ClassAttr[c].methods
        IN  ~ExcludedName(c) =>
              /\ e.route = "classifier" <=> isClf
              /\ e.route = "transformer" <=> ~isClf /\ hasT
              /\ e.route = "predictor" <=> ~isClf /\ ~hasT /\ hasP
              /\ e.route = "none" <=> ~isClf /\ ~hasT /\ ~hasP
              /\ e.route = "none" => ~e.raised /\ NodesOf(c) = {}
              /\ Cardinality(NodesOf(c)) <= 1
              /\ \A k \in NodesOf(c) : scikits_nodes[k].kind = e.route

\* one pass routed LDA (a classifier with transform) to Classifier, PCA to
\* Transformer, Lasso to Predictor and Covariance (fit only) nowhere
C6_Witness ==
    /\ pc = "loaded"
    /\ \E e \in Range(wrap_log) : e.class = "LDA" /\ e.route = "classifier"
    /\ \E e \in Range(wrap_log) : e.class = "PCA" /\ e.route = "transformer"
    /\ \E e \in Range(wrap_log) : e.class = "Lasso" /\ e.route = "predictor"
    /\ \E e \in Range(wrap_log) : e.class = "Covariance" /\ e.route = "none"

\* the calls of __init__ that were given no output_dim
Accepted == SelectSeq(init_log, LAMBDA e : e.output_dim = NoDim)

(* C7: for each adapter shape, __init__ with an output_dim that is not     *)
(* None raises ScikitsException without calling the wrapped class's        *)
(* constructor, and __init__ with output_dim None calls it exactly once,   *)
(* with the keyword arguments.                                             *)
C7_OutputDimRejected ==
    /\ \A e \in Range(init_log) :
         e.raised = IF e.output_dim = NoDim THEN None ELSE "ScikitsException"
    /\ Len(ctor_log) = Len(Accepted)
    /\ Len(instances) = Len(Accepted)
    /\ \A k \in DOMAIN ctor_log :
         /\ ctor_log[k] = [class |-> Accepted[k].class, kwargs |-> Accepted[k].kwargs]
         /\ instances[k].scikits_alg = ctor_log[k]
         /\ instances[k].node = Accepted[k].node

\* one construction with output_dim = 0 was refused and one with keyword
\* arguments and no output_dim built its delegate
C7_Witness ==
    /\ Len(init_log) = 2
    /\ init_log[1].output_dim = <<0>>
    /\ init_log[1].raised = "ScikitsException"
    /\ init_log[2].output_dim = NoDim
    /\ init_log[2].kwargs = "{'n_components': 2}"
    /\ Len(ctor_log) = 1

(* C8: every class routed to a factory gets an adapter type, the pass      *)
(* going on, and is_trainable() of that type is true exactly if the class  *)
(* defines fit.                                                            *)
C8_SynthesisNeverAborts ==
    \A e \in Range(wrap_log) :
        e.route \in Kinds =>
            /\ ~e.raised
            /\ pc # "aborted"
            /\ \E k \in NodesOf(e.class) :
                 is_trainable(scikits_nodes[k]) <=> "fit" \in ClassAttr[e.class].methods

(* C9: a subpackage whose import fails is skipped: the failure does not    *)
(* propagate, the later subpackages are attempted, and the discovery pass  *)
(* and the assembly of DICT_ run to completion.                            *)
C9_FailedImportSkipped ==
    failed # {} =>
        /\ pc # "aborted"
        /\ exception = None
        /\ pc # "import" => i = Len(scikits_modules) + 1

(* C10: besides the root, the walker enters only modules whose __name__    *)
(* starts with the package name 'scikits.learn', reached through public    *)
(* names; the two lists are the same objects throughout the recursion and  *)
(* only grow; so no module outside the package is entered and no class     *)
(* bound only in such modules is passed to action.                         *)
C10_OnlyPackageModulesEntered ==
    /\ [](/\ \A k \in DOMAIN processed_modules :
               IF k = 1 THEN processed_modules[k] = "learn"
               ELSE StartsWith(ModuleName[processed_modules[k]], "scikits.learn")
          /\ Range(processed_modules) \subseteq PackageClosure({"learn"})
          /\ \A c \in Range(action_log) :
               \E m \in PackageClosure({"learn"}) : \E n \in DOMAIN namespace[m] :
                    ~StartsWith(n, "_") /\ namespace[m][n] = c)
    /\ [][pc = "walk" => /\ IsPrefix(processed_modules, processed_modules')
                         /\ IsPrefix(processed_classes, processed_classes')]_vars

\* numpy is bound to a public name of the root and holds Lasso; the call
\* returned without entering it and without passing Lasso to action
C10_Witness ==
    /\ lib = "private"
    /\ result.returned
    /\ "numpy" \in Range(namespace["learn"])
    /\ "numpy" \notin Range(processed_modules)
    /\ "Lasso" \notin Range(action_log)

====
